---- MODULE Spec2Model ----
(***************************************************************************)
(* City Events Service (src/app.py): a FastAPI application that forwards   *)
(* GET /city_events/ to the Ticketmaster discovery API and reshapes the    *)
(* answer, plus GET /health_check.                                         *)
(*                                                                         *)
(* Conventions of the model.                                               *)
(*  - A Python str is a sequence of tokens.  A token is one character of   *)
(*    Chars, one percent-escape ("%26", "%20"), one URL delimiter ("?",    *)
(*    "&", "="), one parameter name, or one opaque literal (a base URL, an *)
(*    event value).  Python None is the one-token sequence None.           *)
(*  - A JSON object is a function from its keys; an absent key is absent   *)
(*    from the DOMAIN.                                                     *)
(*  - pydantic is taken with its 1.x semantics, which the module relies on *)
(*    (`name: str = None` declares an optional field).                     *)
(***************************************************************************)
EXTENDS Integers, Sequences, FiniteSets, TLC

\* Bounds of the model.
NumReqs == 2
MaxLen == 1
MaxEvents == 2
\* Redirects the model follows per call; past it a call is not explored
\* further while the upstream keeps redirecting.
MaxRedirects == 1

\* requests' DEFAULT_REDIRECT_LIMIT, in force for requests.get(url).
RedirectLimit == 30

Requests == 1..NumReqs

None == <<"None">>

Chars == {"a", "&", " "}

\* Every str of at most n characters.
StrsUpTo(n) == UNION {[1..k -> Chars] : k \in 0..n}

-----------------------------------------------------------------------------
(* URLs and query strings                                                  *)

\* Percent-encoding of one character, as a client writes it in a query.
quote_char(c) == CASE c = "&" -> "%26"
                   [] c = " " -> "%20"
                   [] OTHER -> c

quote(s) == [i \in 1..Len(s) |-> quote_char(s[i])]

\* urllib.parse.unquote_plus on one token.
unquote_char(t) == CASE t = "%26" -> "&"
                     [] t = "%20" -> " "
                     [] t = "+" -> " "
                     [] OTHER -> t

unquote(s) == [i \in 1..Len(s) |-> unquote_char(s[i])]

\* Index of the first occurrence of token t in s, or 0.
RECURSIVE IndexFrom(_, _, _)
IndexFrom(s, t, i) == IF i > Len(s) THEN 0
                      ELSE IF s[i] = t THEN i
                      ELSE IndexFrom(s, t, i + 1)

Index(s, t) == IndexFrom(s, t, 1)

\* str.split(t)
RECURSIVE Split(_, _)
Split(s, t) == LET i == Index(s, t)
               IN IF i = 0 THEN <<s>>
                  ELSE <<SubSeq(s, 1, i - 1)>> \o Split(SubSeq(s, i + 1, Len(s)), t)

\* One name=value piece of a query, as urllib.parse.parse_qsl reads it with
\* keep_blank_values=True: split at the first "=", both sides unquoted.
parse_pair(piece) == LET i == Index(piece, "=")
                     IN IF i = 0 THEN <<unquote(piece), <<>>>>
                        ELSE <<unquote(SubSeq(piece, 1, i - 1)),
                               unquote(SubSeq(piece, i + 1, Len(piece)))>>

\* urllib.parse.parse_qsl(query, keep_blank_values=True): empty pieces are
\* skipped.
parse_qsl(query) == LET pieces == SelectSeq(Split(query, "&"), LAMBDA p : p # <<>>)
                    IN [i \in 1..Len(pieces) |-> parse_pair(pieces[i])]

\* The query of a URL: what follows the first "?".
QueryOf(url) == LET i == Index(url, "?")
                IN IF i = 0 THEN <<>> ELSE SubSeq(url, i + 1, Len(url))

\* The values a parsed query carries for a name, in order.
ValuesOf(pairs, name) ==
    LET hits == SelectSeq(pairs, LAMBDA p : p[1] = <<name>>)
    IN [i \in 1..Len(hits) |-> hits[i][2]]

\* starlette QueryParams.get / FastAPI parameter extraction: the last value
\* given for the name, None when the name is absent.
QueryGet(url, name) == LET vs == ValuesOf(parse_qsl(QueryOf(url)), name)
                       IN IF vs = <<>> THEN None ELSE vs[Len(vs)]

ServiceBase == "http://127.0.0.1:8080/city_events/"
TicketmasterBase == "https://app.ticketmaster.com/discovery/v2/events.json"

\* The URL a caller requests for the given parameters (None: parameter left
\* out), each value percent-encoded.
RECURSIVE JoinPairs(_)
JoinPairs(ps) == IF ps = <<>> THEN <<>>
                 ELSE <<ps[1][1], "=">> \o quote(ps[1][2])
                      \o (IF Len(ps) = 1 THEN <<>> ELSE <<"&">> \o JoinPairs(Tail(ps)))

InboundUrl(api_key, city, postal_code) ==
    LET given == SelectSeq(<<<<"api_key", api_key>>, <<"city", city>>,
                             <<"postal_code", postal_code>>>>,
                           LAMBDA p : p[2] # None)
    IN IF given = <<>> THEN <<ServiceBase>>
       ELSE <<ServiceBase, "?">> \o JoinPairs(given)

\* pc[r]      where request r of /city_events/ stands
\* req[r]     the request: its URL as the service received it
\* calls[r]   the upstream GETs issued for r, as the URLs sent
\* upResp[r]  what the upstream answered to r's call
\* resp[r]    the HTTP response given to r
\* upstream   the state of the upstream service
\* health     the last /health_check exchange, with the conditions it ran in
\* steps[r]   the stages r has gone through, in order (history)
VARIABLES pc, req, calls, upResp, resp, upstream, health, steps

vars == <<pc, req, calls, upResp, resp, upstream, health, steps>>

-----------------------------------------------------------------------------
(* Results of Python calls: a value, or an exception raised                *)

Ok(v) == [exc |-> "none", value |-> v]
Raise(kind, detail) == [exc |-> kind, value |-> detail]

\* dict.get(key): the value, None when the key is absent.
get(d, key) == IF key \in DOMAIN d THEN d[key] ELSE None

-----------------------------------------------------------------------------
(* Upstream Client                                                         *)

\* requests.get prepares the URL with requote_uri: reserved characters such
\* as "&" and "=" are left alone, a space becomes %20.
requote_uri(url) == [i \in 1..Len(url) |-> IF url[i] = " " THEN "%20" ELSE url[i]]

\* The URL of the GET that get_events_from_ticketmaster issues.
get_events_from_ticketmaster(api_key, city, postal_code) ==
    LET url == <<TicketmasterBase, "?", "apikey", "=">> \o api_key
               \o <<"&", "city", "=">> \o city
    IN requote_uri(IF postal_code # None /\ postal_code # <<>>
                   THEN url \o <<"&", "postalCode", "=">> \o postal_code
                   ELSE url)

-----------------------------------------------------------------------------
(* Upstream payloads                                                       *)

FaultBody == [fault |-> [faultstring |-> <<"Invalid ApiKey">>]]
NoEmbedded == [page |-> [totalElements |-> <<"0">>]]
EmbeddedNoEvents == "_embedded" :> [venues |-> <<>>]
EventsBody(es) == ("_embedded" :> [events |-> es]) @@ [page |-> [totalElements |-> <<"n">>]]

\* A body that is not JSON (an HTML error page).
NotJson == [text |-> <<"<html>">>]

EventKeys == {"id", "name", "url", "type"}
EventValues(k) == CASE k = "id" -> {<<"e1">>, <<"e2">>}
                    [] k = "name" -> {<<"n1">>}
                    [] k = "url" -> {<<"u1">>}
                    [] OTHER -> {<<"t1">>}

\* Upstream events: every subset of the keys, every value of each.
RichEvents == UNION {{e \in [K -> UNION {EventValues(k) : k \in EventKeys}] :
                         \A k \in K : e[k] \in EventValues(k)} : K \in SUBSET EventKeys}

RichBodies == {NoEmbedded, EmbeddedNoEvents}
              \cup {EventsBody(es) : es \in UNION {[1..n -> RichEvents] : n \in 0..MaxEvents}}

FullEvent == [id |-> <<"e1">>, name |-> <<"n1">>, url |-> <<"u1">>, type |-> <<"t1">>]
NoIdEvent == [name |-> <<"n1">>]

LeanBodies == {NoEmbedded, EventsBody(<<FullEvent>>), EventsBody(<<NoIdEvent>>)}

ClientBodies == LeanBodies \cup {EmbeddedNoEvents, EventsBody(<<>>),
                                 EventsBody(<<[id |-> <<"e2">>], FullEvent>>)}

UpstreamStates == {"available", "unauthorized", "failing", "redirecting"}

\* Where a redirecting upstream sends its callers.
MovedUrl == <<"https://app.ticketmaster.com/moved">>

ConnectionError == [kind |-> "ConnectionError"]
Reply(status, body) == [kind |-> "response", status |-> status, body |-> body]
RedirectReply == [kind |-> "redirect", status |-> 302, location |-> MovedUrl]

\* What the upstream may answer to one GET, by its state.
UpstreamReplies(state, Bodies) ==
    CASE state = "available" -> {Reply(200, b) : b \in Bodies}
      [] state = "unauthorized" -> {Reply(401, FaultBody)}
      [] state = "redirecting" -> {RedirectReply}
      [] OTHER -> {ConnectionError, Reply(503, NotJson)}

-----------------------------------------------------------------------------
(* Response Translator                                                     *)

\* pydantic AnyHttpUrl: the scheme must be http or https; the value is kept
\* as given.
AnyHttpUrl(url) ==
    IF url # <<>> /\ url[1] \in {ServiceBase, TicketmasterBase}
    THEN Ok(url)
    ELSE Raise("ValidationError", <<[field |-> "self", at |-> 0, msg |-> "invalid or missing URL scheme"]>>)

\* Event with id declared like name and url (`id: str = None`).
Event_optional_id(d, i) == Ok([name |-> d.name, id |-> d.id, url |-> d.url])

\* class Event: name and url default to None, id is required.
Event(d, i) ==
    IF d.id = None
    THEN Raise("ValidationError", <<[field |-> "id", at |-> i, msg |-> "none is not an allowed value"]>>)
    ELSE Ok([name |-> d.name, id |-> d.id, url |-> d.url])

\* class OutputModel: validates links and every event, collecting the errors.
RECURSIVE EventErrors(_, _)
EventErrors(ds, i) ==
    IF i > Len(ds) THEN <<>>
    ELSE (IF Event(ds[i], i).exc = "none" THEN <<>> ELSE Event(ds[i], i).value)
         \o EventErrors(ds, i + 1)

OutputModel(links, events) ==
    LET self == AnyHttpUrl(links.self)
        errors == (IF self.exc = "none" THEN <<>> ELSE self.value) \o EventErrors(events, 1)
    IN IF errors # <<>> THEN Raise("ValidationError", errors)
       ELSE Ok([links |-> [self |-> self.value],
                events |-> [i \in 1..Len(events) |-> Event(events[i], i).value]])

\* construct_response taking the self link from the URL without its query.
construct_response_base_url(request_url, resp_json) ==
    IF "_embedded" \notin DOMAIN resp_json THEN Raise("KeyError", <<"_embedded">>)
    ELSE IF "events" \notin DOMAIN resp_json["_embedded"] THEN Raise("KeyError", <<"events">>)
    ELSE LET upstream_events == resp_json["_embedded"]["events"]
         IN OutputModel([self |-> <<request_url[1]>>],
                        [i \in 1..Len(upstream_events) |->
                            [name |-> get(upstream_events[i], "name"),
                             id |-> get(upstream_events[i], "id"),
                             url |-> get(upstream_events[i], "url")]])

\* construct_response with name and url read from each other's key.
construct_response_swapped(request_url, resp_json) ==
    IF "_embedded" \notin DOMAIN resp_json THEN Raise("KeyError", <<"_embedded">>)
    ELSE IF "events" \notin DOMAIN resp_json["_embedded"] THEN Raise("KeyError", <<"events">>)
    ELSE LET upstream_events == resp_json["_embedded"]["events"]
         IN OutputModel([self |-> request_url],
                        [i \in 1..Len(upstream_events) |->
                            [name |-> get(upstream_events[i], "url"),
                             id |-> get(upstream_events[i], "id"),
                             url |-> get(upstream_events[i], "name")]])

\* construct_response filling a module-level events list that is never
\* cleared: the events of earlier responses precede the request's own.
construct_response_shared(request_url, resp_json) ==
    IF "_embedded" \notin DOMAIN resp_json THEN Raise("KeyError", <<"_embedded">>)
    ELSE IF "events" \notin DOMAIN resp_json["_embedded"] THEN Raise("KeyError", <<"events">>)
    ELSE LET upstream_events == resp_json["_embedded"]["events"]
             earlier == IF \E q \in Requests : pc[q] = "done" /\ resp[q].status = 200
                        THEN (CHOOSE q \in Requests : pc[q] = "done" /\ resp[q].status = 200)
                        ELSE 0
             kept == IF earlier = 0 THEN <<>> ELSE resp[earlier].body.events
         IN OutputModel([self |-> request_url],
                        kept \o [i \in 1..Len(upstream_events) |->
                            [name |-> get(upstream_events[i], "name"),
                             id |-> get(upstream_events[i], "id"),
                             url |-> get(upstream_events[i], "url")]])

construct_response(request_url, resp_json) ==
    IF "_embedded" \notin DOMAIN resp_json THEN Raise("KeyError", <<"_embedded">>)
    ELSE IF "events" \notin DOMAIN resp_json["_embedded"] THEN Raise("KeyError", <<"events">>)
    ELSE LET upstream_events == resp_json["_embedded"]["events"]
         IN OutputModel([self |-> request_url],
                        [i \in 1..Len(upstream_events) |->
                            [name |-> get(upstream_events[i], "name"),
                             id |-> get(upstream_events[i], "id"),
                             url |-> get(upstream_events[i], "url")]])

-----------------------------------------------------------------------------
(* Request handling                                                        *)

Response(status, body) == [status |-> status, body |-> body]
NoResp == [status |-> 0]

\* city declared with a default (Query(None)), like postal_code.
RequiredParams_city_optional == {"api_key"}

\* The parameters FastAPI requires of /city_events/ (Query(...)).
RequiredParams == {"api_key", "city"}

MissingParams(url) == {n \in RequiredParams : QueryGet(url, n) = None}

\* FastAPI's answer to a request that fails parameter validation.
request_validation_error(url) ==
    LET missing == SelectSeq(<<"api_key", "city">>, LAMBDA n : n \in MissingParams(url))
    IN Response(422, [detail |-> [i \in 1..Len(missing) |->
                                     [loc |-> <<"query", missing[i]>>,
                                      msg |-> <<"field required">>]]])

\* handle_central_exception: pydantic's ValidationError becomes a 422.
RECURSIVE str_errors(_)
str_errors(errors) ==
    IF errors = <<>> THEN <<>>
    ELSE <<errors[1].field, ToString(errors[1].at), errors[1].msg>> \o str_errors(Tail(errors))

\* str(exc) of a pydantic ValidationError.
str_exc(exc) == <<"validation errors for OutputModel">> \o str_errors(exc.value)

handle_central_exception(exc) == Response(422, [detail |-> <<[msg |-> str_exc(exc)]>>])

\* The body of get_city_events once the upstream call has returned or failed.
get_city_events(request_url, reply) ==
    IF reply.kind = "ConnectionError" THEN Raise("ConnectionError", <<>>)
    ELSE IF reply.kind = "redirect" THEN Raise("TooManyRedirects", <<>>)
    ELSE IF reply.body = NotJson THEN Raise("JSONDecodeError", <<>>)
    ELSE construct_response(request_url, reply.body)

\* The HTTP response the application gives for the endpoint's outcome.
respond(result) ==
    CASE result.exc = "none" -> Response(200, result.value)
      [] result.exc = "ValidationError" -> handle_central_exception(result)
      [] OTHER -> Response(500, [error |-> "Internal Server Error"])

\* A health check that reports the upstream's condition.
health_check_probe ==
    IF upstream = "available" THEN Response(200, [status |-> "pass"])
    ELSE Response(503, [status |-> "fail"])

health_check == Response(200, [status |-> "pass"])

-----------------------------------------------------------------------------
(* Inputs                                                                  *)

\* <<api_key, city, postal_code>> as the caller gives them; None: left out.
LeanParams == {<<(<<"a">>), (<<"a">>), (<<"a">>)>>,
               <<(<<"a">>), None, None>>, <<None, (<<"a">>), None>>}
RichParams == LET V == StrsUpTo(MaxLen) \cup {None} IN V \X V \X V
FewParams == {<<(<<"a">>), (<<"a">>), None>>, <<(<<"a">>), None, None>>}

NoReq == [url |-> <<>>]
NoReply == [kind |-> "none"]
NoHealth == [upstream |-> "none", busy |-> FALSE, resp |-> NoResp]

InFlight(r) == pc[r] \in {"received", "validated", "calling"}

-----------------------------------------------------------------------------
(* Actions                                                                 *)

Init ==
    /\ pc = [r \in Requests |-> "idle"]
    /\ req = [r \in Requests |-> NoReq]
    /\ calls = [r \in Requests |-> <<>>]
    /\ upResp = [r \in Requests |-> NoReply]
    /\ resp = [r \in Requests |-> NoResp]
    /\ upstream = "available"
    /\ health = NoHealth
    /\ steps = [r \in Requests |-> <<>>]

\* A caller sends GET /city_events/ with the parameters p.
Receive(r, Params) ==
    /\ pc[r] = "idle"
    /\ \E p \in Params :
          req' = [req EXCEPT ![r] = [url |-> InboundUrl(p[1], p[2], p[3])]]
    /\ pc' = [pc EXCEPT ![r] = "received"]
    /\ UNCHANGED <<calls, upResp, resp, upstream, health, steps>>

\* FastAPI extracts the query parameters; a required one missing ends the
\* request with a 422 before the endpoint runs.
Validate(r) ==
    /\ pc[r] = "received"
    /\ IF MissingParams(req[r].url) = {}
       THEN /\ pc' = [pc EXCEPT ![r] = "validated"]
            /\ steps' = [steps EXCEPT ![r] = Append(@, "validate")]
            /\ UNCHANGED resp
       ELSE /\ pc' = [pc EXCEPT ![r] = "done"]
            /\ steps' = [steps EXCEPT ![r] = @ \o <<"validate", "respond">>]
            /\ resp' = [resp EXCEPT ![r] = request_validation_error(req[r].url)]
    /\ UNCHANGED <<req, calls, upResp, upstream, health>>

\* get_city_events calls get_events_from_ticketmaster: the GET goes out.
CallUpstream(r) ==
    /\ pc[r] = "validated"
    /\ calls' = [calls EXCEPT ![r] =
                    Append(@, get_events_from_ticketmaster(
                                  QueryGet(req[r].url, "api_key"),
                                  QueryGet(req[r].url, "city"),
                                  QueryGet(req[r].url, "postal_code")))]
    /\ pc' = [pc EXCEPT ![r] = "calling"]
    /\ steps' = [steps EXCEPT ![r] = Append(@, "call")]
    /\ UNCHANGED <<req, upResp, resp, upstream, health>>

\* requests.get follows a redirect (allow_redirects is on by default): a
\* further GET goes to the Location, inside the same call.
FollowRedirect(r) ==
    /\ pc[r] = "calling"
    /\ Len(calls[r]) <= RedirectLimit
    /\ Len(calls[r]) <= MaxRedirects
    /\ \E reply \in UpstreamReplies(upstream, {}) :
          /\ reply.kind = "redirect"
          /\ calls' = [calls EXCEPT ![r] = Append(@, requote_uri(reply.location))]
    /\ steps' = [steps EXCEPT ![r] = Append(@, "call")]
    /\ UNCHANGED <<pc, req, upResp, resp, upstream, health>>

\* The stages get_city_events goes through once requests.get is over:
\* resp.json() and construct_response when a response came back with a JSON
\* body, then the application's response. resp.status_code is never read.
StepsAfterCall(reply) ==
    IF reply.kind = "response" /\ reply.body # NotJson
    THEN <<"translate", "respond">>
    ELSE <<"respond">>

\* The upstream answers (or the connection fails, or a redirect comes back
\* with RedirectLimit redirects already followed: TooManyRedirects);
\* get_city_events builds its result and the application responds.
Complete(r, Bodies) ==
    /\ pc[r] = "calling"
    /\ \E reply \in UpstreamReplies(upstream, Bodies) :
          /\ reply.kind = "redirect" => Len(calls[r]) > RedirectLimit
          /\ upResp' = [upResp EXCEPT ![r] = reply]
          /\ resp' = [resp EXCEPT ![r] = respond(get_city_events(req[r].url, reply))]
          /\ steps' = [steps EXCEPT ![r] = @ \o StepsAfterCall(reply)]
    /\ pc' = [pc EXCEPT ![r] = "done"]
    /\ UNCHANGED <<req, calls, upstream, health>>

\* GET /health_check.
HealthCheck ==
    /\ health' = [upstream |-> upstream,
                  busy |-> \E r \in Requests : InFlight(r),
                  resp |-> health_check]
    /\ UNCHANGED <<pc, req, calls, upResp, resp, upstream, steps>>

\* The upstream changes state.
UpstreamChange ==
    /\ \E s \in UpstreamStates \ {upstream} : upstream' = s
    /\ UNCHANGED <<pc, req, calls, upResp, resp, health, steps>>

\* The service: concurrent requests, health checks, a changing upstream.
Next ==
    \/ \E r \in Requests : Receive(r, LeanParams)
    \/ \E r \in Requests : Validate(r)
    \/ \E r \in Requests : CallUpstream(r)
    \/ \E r \in Requests : FollowRedirect(r)
    \/ \E r \in Requests : Complete(r, LeanBodies)
    \/ HealthCheck
    \/ UpstreamChange

Spec == Init /\ [][Next]_vars

\* One request against every payload of an available upstream: the Response
\* Translator.
NextTranslator ==
    \/ Receive(1, FewParams)
    \/ Validate(1)
    \/ CallUpstream(1)
    \/ Complete(1, RichBodies)

SpecTranslator == Init /\ [][NextTranslator]_vars

\* One request with every parameter value: the Upstream Client.
NextClient ==
    \/ Receive(1, RichParams)
    \/ Validate(1)
    \/ CallUpstream(1)
    \/ FollowRedirect(1)
    \/ Complete(1, ClientBodies)
    \/ UpstreamChange

SpecClient == Init /\ [][NextClient]_vars

TypeOK ==
    /\ pc \in [Requests -> {"idle", "received", "validated", "calling", "done"}]
    /\ upstream \in UpstreamStates
    /\ \A r \in Requests : Len(calls[r]) \in 0..(MaxRedirects + 1)

-----------------------------------------------------------------------------
(* Properties                                                              *)

Done(r) == pc[r] = "done"

\* The parameters the caller gave, read off the request URL.
Given(r, name) == ValuesOf(parse_qsl(QueryOf(req[r].url)), name)

Answered(r) == Done(r) /\ upResp[r].kind = "response"

\* The upstream answered r with a JSON body holding an embedded-events
\* collection.
HasEvents(r) ==
    /\ Answered(r)
    /\ upResp[r].body # NotJson
    /\ "_embedded" \in DOMAIN upResp[r].body
    /\ "events" \in DOMAIN upResp[r].body["_embedded"]

UpstreamEvents(r) == upResp[r].body["_embedded"]["events"]

\* The upstream answered r with a JSON body without the collection.
LacksEvents(r) ==
    /\ Answered(r)
    /\ upResp[r].status = 200
    /\ upResp[r].body # NotJson
    /\ ~HasEvents(r)

\* C1: when the upstream answers 401, the response is 401 with the
\* upstream's fault body unchanged.
C1_Upstream401PassedThrough ==
    \A r \in Requests :
        (Answered(r) /\ upResp[r].status = 401)
            => resp[r] = Response(401, upResp[r].body)

\* C2: when the upstream body has no embedded-events collection, the request
\* ends normally (200) with an empty or absent events list.
C2_NoCollectionGivesEmptyEvents ==
    \A r \in Requests :
        LacksEvents(r)
            => /\ resp[r].status = 200
               /\ ("events" \in DOMAIN resp[r].body => resp[r].body.events = <<>>)

\* C3: in every 200 response of /city_events/, links.self is the URL of the
\* request as the service received it, query string included.
C3_SelfLinkIsRequestUrl ==
    \A r \in Requests :
        (Done(r) /\ resp[r].status = 200) => resp[r].body.links.self = req[r].url

C3_Witness ==
    \E r \in Requests :
        /\ Done(r) /\ resp[r].status = 200
        /\ Given(r, "city") = << <<"&">> >>
        /\ Given(r, "postal_code") # <<>>
        /\ Len(resp[r].body.events) > 0

\* C4: when the upstream body holds an embedded-events collection (its
\* events carrying an id), the output events are its projection onto
\* id/name/url: same length and order, same id, name and url carried when
\* the upstream event has them and None when not, and no other field.
C4_EventsAreProjection ==
    \A r \in Requests :
        (HasEvents(r) /\ \A i \in DOMAIN UpstreamEvents(r) : "id" \in DOMAIN UpstreamEvents(r)[i])
            => /\ resp[r].status = 200
               /\ LET up == UpstreamEvents(r)
                      out == resp[r].body.events
                  IN /\ Len(out) = Len(up)
                     /\ \A i \in 1..Len(up) :
                           /\ DOMAIN out[i] = {"id", "name", "url"}
                           /\ out[i].id = up[i].id
                           /\ out[i].name = (IF "name" \in DOMAIN up[i] THEN up[i].name ELSE None)
                           /\ out[i].url = (IF "url" \in DOMAIN up[i] THEN up[i].url ELSE None)

C4_Witness ==
    \E r \in Requests :
        /\ HasEvents(r) /\ resp[r].status = 200
        /\ Len(UpstreamEvents(r)) = 2
        /\ UpstreamEvents(r)[1].id # UpstreamEvents(r)[2].id
        /\ DOMAIN UpstreamEvents(r)[1] = EventKeys
        /\ DOMAIN UpstreamEvents(r)[2] = {"id", "url"}

\* C5: a request lacking api_key or city never reaches the endpoint and ends
\* with a 422 whose body carries a non-empty validation message.
C5_MissingParamGives422 ==
    \A r \in Requests :
        (pc[r] # "idle" /\ (Given(r, "api_key") = <<>> \/ Given(r, "city") = <<>>))
            => /\ pc[r] \in {"received", "done"}
               /\ Done(r) =>
                     /\ resp[r].status = 422
                     /\ resp[r].body.detail # <<>>
                     /\ \A i \in DOMAIN resp[r].body.detail : resp[r].body.detail[i].msg # <<>>

C5_Witness ==
    \E r \in Requests :
        /\ Done(r) /\ resp[r].status = 422
        /\ Given(r, "city") = <<>>
        /\ Given(r, "api_key") # <<>>

\* C6: every /health_check exchange answers 200 {"status": "pass"} and
\* issues no upstream call, whatever the upstream state and the requests in
\* flight.
C6_HealthCheckAlwaysPasses ==
    [][health' # health =>
          /\ health'.resp = Response(200, [status |-> "pass"])
          /\ calls' = calls
          /\ upResp' = upResp]_vars

C6_Witness ==
    /\ health.upstream = "failing"
    /\ health.busy
    /\ health.resp.status = 200

\* C7: the upstream GET carries apikey = the caller's api_key, city = the
\* caller's city, and postalCode exactly when the caller gave a postal code,
\* with its value (an empty postal_code counts as none given).
C7_UpstreamQueryCarriesParams ==
    \A r \in Requests :
        calls[r] # <<>>
            => LET sent == parse_qsl(QueryOf(calls[r][1]))
               IN /\ ValuesOf(sent, "apikey") = Given(r, "api_key")
                  /\ ValuesOf(sent, "city") = Given(r, "city")
                  /\ ValuesOf(sent, "postalCode") =
                        (IF Given(r, "postal_code") = << <<>> >> THEN <<>>
                         ELSE Given(r, "postal_code"))

\* Everything the state holds about request r.
StateOf(r) == <<pc[r], req[r], calls[r], upResp[r], resp[r], steps[r]>>

\* C8: requests are independent. Two finished requests with the same URL and
\* the same upstream answer have the same response, and a step of one
\* request changes nothing of another: a step that changes anything of a
\* request changes nothing of any other request, and a health check or a
\* change of the upstream changes nothing of any request.
C8_RequestsIndependent ==
    /\ [](\A r1, r2 \in Requests :
            (Done(r1) /\ Done(r2) /\ req[r1] = req[r2] /\ upResp[r1] = upResp[r2])
                => resp[r1] = resp[r2])
    /\ [][\A r \in Requests :
            StateOf(r)' # StateOf(r)
               => /\ \A q \in Requests \ {r} : StateOf(q)' = StateOf(q)
                  /\ upstream' = upstream
                  /\ health' = health]_vars

C8_Witness ==
    /\ \A r \in Requests : Done(r) /\ resp[r].status = 200
    /\ req[1] = req[2] /\ upResp[1] = upResp[2]
    /\ Len(resp[1].body.events) > 0

\* How often a stage occurs in a request's history.
StepCount(r, label) == Cardinality({i \in DOMAIN steps[r] : steps[r][i] = label})

PassesValidation(r) == Given(r, "api_key") # <<>> /\ Given(r, "city") # <<>>

\* C9: a request goes validate -> upstream call -> status inspection ->
\* translate -> respond. No upstream GET goes out before validation has
\* passed and none at all for a request that fails it; a request that passes
\* makes exactly one upstream GET, whatever the upstream answers; the
\* upstream status is inspected after the call and before any translation;
\* the response comes last.
C9_ValidateCallInspectTranslateRespond ==
    \A r \in Requests :
        /\ pc[r] \in {"idle", "received", "validated"} => calls[r] = <<>> /\ resp[r] = NoResp
        /\ pc[r] = "calling" => Len(calls[r]) = 1 /\ resp[r] = NoResp
        /\ Done(r) =>
              /\ resp[r] # NoResp
              /\ steps[r][1] = "validate"
              /\ steps[r][Len(steps[r])] = "respond"
              /\ StepCount(r, "respond") = 1
              /\ Len(calls[r]) = (IF PassesValidation(r) THEN 1 ELSE 0)
              /\ StepCount(r, "call") = Len(calls[r])
              /\ \A i \in DOMAIN steps[r] :
                    steps[r][i] = "translate"
                       => \E j \in 1..(i - 1), k \in 1..(i - 1) :
                             /\ k < j
                             /\ steps[r][k] = "call"
                             /\ steps[r][j] = "inspect"

\* C10: an upstream event without an id makes the request end with a 422 of
\* the form {"detail": [{"msg": ...}]}, so every event of every 200 response
\* has an id.
C10_EventWithoutIdGives422 ==
    \A r \in Requests :
        /\ (HasEvents(r) /\ \E i \in DOMAIN UpstreamEvents(r) : "id" \notin DOMAIN UpstreamEvents(r)[i])
              => /\ resp[r].status = 422
                 /\ DOMAIN resp[r].body = {"detail"}
                 /\ Len(resp[r].body.detail) = 1
                 /\ DOMAIN resp[r].body.detail[1] = {"msg"}
                 /\ resp[r].body.detail[1].msg # <<>>
        /\ (Done(r) /\ resp[r].status = 200)
              => \A i \in DOMAIN resp[r].body.events : resp[r].body.events[i].id # None

C10_Witness ==
    \E r \in Requests :
        /\ HasEvents(r) /\ resp[r].status = 422
        /\ Len(UpstreamEvents(r)) = 2
        /\ "id" \in DOMAIN UpstreamEvents(r)[1]
        /\ "id" \notin DOMAIN UpstreamEvents(r)[2]

====
